---- MODULE Spec2Model ----
(***************************************************************************)
(* A model of src/src/index.js (class Sybase): the request/response        *)
(* correlation layer and the transaction wrapper that talk to the Java     *)
(* helper process over stdin/stdout, the start and the end of that         *)
(* process, and the module-level query(config, sql).                       *)
(*                                                                         *)
(* The host side is a single event loop: one action of the model is one    *)
(* call of the API by the caller, or one event handler run to completion   *)
(* together with the promise continuations (microtasks) it releases.       *)
(***************************************************************************)
EXTENDS Integers, Sequences, FiniteSets, TLC

\* Bounds of the exploration.
MaxRequests == 3    \* requests dispatched over the life of the connection
MaxTx == 1          \* transaction() calls the caller makes
MaxDisconnects == 1 \* disconnectSync() calls the caller makes
MaxSignals == 2     \* times the outcome of a connect call is signalled to its caller

\* querySync's default for transactionId: "no transaction".
NoTransaction == -1

\* JavaScript's undefined, as the value of a parameter that was not passed.
Undefined == -2

VARIABLES
    connected,         \* this.connected
    javaDB,            \* the helper process: "none" (not spawned), "starting", "running", "exited"
    killed,            \* a termination signal was sent to the helper while it was alive
    hasConnected,      \* connectCore's hasConnected: the handshake line was seen
    stdoutData,        \* connectCore's "data" listener is attached to the helper's stdout
    stderrData,        \* connectCore's "data" listener is attached to the helper's stderr
    connectCall,       \* the connect()/connectAsync() call: its mode and how it was completed
    connectedWritten,  \* the helper has written the line `connected` to its stdout
    queryCount,        \* this.queryCount
    transactionCount,  \* this.transactionCount
    currentMessages,   \* this.currentMessages: msgId -> message
    listeners,         \* the "data" listeners querySync attached to jsonParser, in order of attachment,
                       \* each named by the msgId of the request whose promise it settles
    stdin,             \* everything written to the helper's stdin, in order
    waiter,            \* per dispatched request: how its caller was completed
    txs,               \* the transaction() calls, in order of their start
    decoded,           \* msgIds of the response records decoded so far
    dsync,             \* the promises disconnectSync() returned, in order of the calls
    oneShot,           \* the call of the module-level query(config, sql), if the instance is its own
    lastError          \* the error the latest step signalled at once to the caller of an API, and the call

vars == <<connected, javaDB, killed, hasConnected, stdoutData, stderrData, connectCall,
          connectedWritten,
          queryCount, transactionCount, currentMessages, listeners, stdin, waiter, txs,
          decoded, dsync, oneShot, lastError>>

\* The variables of Host, the state the functions of the instance work on.
hostVars == <<connected, javaDB, killed, queryCount, transactionCount, currentMessages,
              listeners, stdin, waiter, txs, dsync, oneShot>>

\* connectCore's closure, and how far the helper's start has come.
startVars == <<hasConnected, stdoutData, stderrData, connectCall, connectedWritten>>

----------------------------------------------------------------------------
\* Values

NoError == [type |-> "none", src |-> 0, at |-> "none"]

\* new Error("Database isn't connected."), created by the querySync call for `sql`.
NotConnectedError(sql) == [type |-> "NotConnected", src |-> 0, at |-> sql]

\* new Error(jsonMsg.error), created by the listener of the request written for `sql`.
QueryFailedError(msgId, sql) == [type |-> "QueryFailed", src |-> msgId, at |-> sql]

\* An error the transaction body raises by itself.
BodyError == [type |-> "BodyError", src |-> 0, at |-> "body"]

\* jsonMsg.result of the record with this msgId.
ResultOf(msgId) == [type |-> "result", src |-> msgId, at |-> "none"]

\* A value the transaction body returns without querying.
BodyValue == [type |-> "value", src |-> 0, at |-> "body"]

NoValue == [type |-> "undefined", src |-> 0, at |-> "none"]

Put(f, k, v) == [x \in (DOMAIN f) \cup {k} |-> IF x = k THEN v ELSE f[x]]

Remove(f, k) == [x \in (DOMAIN f) \ {k} |-> f[x]]

EmptyMap == [x \in {} |-> NoValue]

\* The host-side state as one value, so that the code's functions are operators on it.
Host == [connected |-> connected, javaDB |-> javaDB, killed |-> killed,
         queryCount |-> queryCount,
         transactionCount |-> transactionCount, currentMessages |-> currentMessages,
         listeners |-> listeners, stdin |-> stdin, waiter |-> waiter, txs |-> txs,
         dsync |-> dsync, oneShot |-> oneShot]

Apply(s) ==
    /\ connected' = s.connected
    /\ javaDB' = s.javaDB
    /\ killed' = s.killed
    /\ dsync' = s.dsync
    /\ oneShot' = s.oneShot
    /\ queryCount' = s.queryCount
    /\ transactionCount' = s.transactionCount
    /\ currentMessages' = s.currentMessages
    /\ listeners' = s.listeners
    /\ stdin' = s.stdin
    /\ waiter' = s.waiter
    /\ txs' = s.txs

----------------------------------------------------------------------------
\* isConnected, prepareQuery

isConnected(s) == s.connected

\* JSON.stringify(msg): the wire form carries the data fields of msg; the callback is not data.
stringify(msg) ==
    [msgId |-> msg.msgId, transId |-> msg.transId, finishTrans |-> msg.finishTrans, sql |-> msg.sql]

\* A variant that takes the next id before it checks the connection.
prepareQueryCountFirst(s, sql, transactionId, finishTransaction, callback) ==
    LET id == s.queryCount + 1
        msg == [msgId |-> id, transId |-> transactionId, finishTrans |-> finishTransaction,
                sql |-> sql, callback |-> callback]
    IN  IF ~isConnected(s)
        THEN [s |-> [s EXCEPT !.queryCount = id], strMsg |-> NoValue,
              cbError |-> IF callback = "function" THEN NotConnectedError(sql) ELSE NoError]
        ELSE [s |-> [s EXCEPT !.queryCount = id, !.currentMessages = Put(@, id, msg)],
              strMsg |-> stringify(msg), cbError |-> NoError]

\* A variant that gives a request the lowest id that is free in the table.
prepareQueryFreeId(s, sql, transactionId, finishTransaction, callback) ==
    IF ~isConnected(s)
    THEN [s |-> s, strMsg |-> NoValue,
          cbError |-> IF callback = "function" THEN NotConnectedError(sql) ELSE NoError]
    ELSE LET id == CHOOSE k \in 1..(s.queryCount + 1) :
                       /\ k \notin DOMAIN s.currentMessages
                       /\ \A j \in 1..(k - 1) : j \in DOMAIN s.currentMessages
             msg == [msgId |-> id, transId |-> transactionId, finishTrans |-> finishTransaction,
                     sql |-> sql, callback |-> callback]
         IN  [s |-> [s EXCEPT !.queryCount = @ + 1, !.currentMessages = Put(@, id, msg)],
              strMsg |-> stringify(msg), cbError |-> NoError]

prepareQuery(s, sql, transactionId, finishTransaction, callback) ==
    IF ~isConnected(s)
    THEN [s |-> s, strMsg |-> NoValue,
          cbError |-> IF callback = "function" THEN NotConnectedError(sql) ELSE NoError]
    ELSE LET id == s.queryCount + 1
             msg == [msgId |-> id, transId |-> transactionId, finishTrans |-> finishTransaction,
                     sql |-> sql, callback |-> callback]
         IN  [s |-> [s EXCEPT !.queryCount = id, !.currentMessages = Put(@, id, msg)],
              strMsg |-> stringify(msg), cbError |-> NoError]

\* calls: how many times the completion was signalled; sets: the number of result sets
\* of the record it was signalled with; shape: what was delivered as the value, the
\* single result set ("set") or the list of result sets ("list").
NewWaiter(mode, sql) ==
    [mode |-> mode, sql |-> sql, state |-> "pending", src |-> 0,
     calls |-> 0, sets |-> 0, shape |-> "none"]

\* this.query(sql, callback) as a function of the host state.
queryCore(s, sql, callback) ==
    LET p == prepareQuery(s, sql, NoTransaction, FALSE, callback)
    IN  IF p.strMsg = NoValue
        THEN [s |-> p.s, err |-> p.cbError]
        ELSE [s |-> [p.s EXCEPT !.stdin = Append(@, p.strMsg),
                                !.waiter = Put(@, p.strMsg.msgId, NewWaiter("query", sql))],
              err |-> NoError]

\* this.querySync(sql, transactionId = -1, finishTransaction = false) as a function of
\* the host state. promise = 0: the promise was rejected at once with err; otherwise the
\* promise is pending and named by the msgId of its request.
querySyncCore(s, sql, transactionIdArg, finishTransaction) ==
    LET transactionId == IF transactionIdArg = Undefined THEN NoTransaction ELSE transactionIdArg
        p == prepareQuery(s, sql, transactionId, finishTransaction, "null")
    IN  IF p.strMsg = NoValue
        THEN [s |-> p.s, promise |-> 0, err |-> NotConnectedError(sql)]
        ELSE [s |-> [p.s EXCEPT !.listeners = Append(@, p.strMsg.msgId),
                                !.stdin = Append(@, p.strMsg),
                                !.waiter = Put(@, p.strMsg.msgId, NewWaiter("querySync", sql))],
              promise |-> p.strMsg.msgId, err |-> NoError]

----------------------------------------------------------------------------
\* this.transaction(queriesFunction)

BEGIN == "BEGIN TRANSACTION"
COMMIT == "COMMIT TRANSACTION"
ROLLBACK == "ROLLBACK TRANSACTION"
SELECT == "SELECT"
UPDATE == "UPDATE"

\* The bodies the caller passes to transaction():
\*   "documented"  async (connection, transactionId) => connection.querySync(sql, transactionId)
\*   "throws"      a body that fails by itself, without querying
\*   "returns"     a body that returns a value without querying
BodyKinds == {"documented", "throws", "returns"}

Pending == [kind |-> "pending", val |-> NoValue]
Return(v) == [kind |-> "return", val |-> v]
Throw(e) == [kind |-> "throw", val |-> e]

NewTx(tid, body) ==
    [tid |-> tid, body |-> body, pc |-> "start", waitId |-> 0,
     result |-> NoValue, error |-> NoError,
     bodyArg |-> Undefined,        \* the transactionId parameter the body received
     bodyOutcome |-> Pending,      \* how the body ended
     commitOutcome |-> Pending,    \* how the awaited COMMIT ended
     rollbackOutcome |-> Pending,  \* how the awaited ROLLBACK ended
     outcome |-> Pending]          \* how transaction() ended

\* The arguments transaction() calls the body with: queriesFunction(this).
BodyArguments(s, t) == [connection |-> "this", transactionId |-> Undefined]

\* catch (err) { error = err; await this.querySync("ROLLBACK TRANSACTION", transactionId, true); }
\* When the ROLLBACK promise is rejected at once, the rejection leaves the catch block
\* and is what transaction() fails with.
catchBlock(s, t, err) ==
    LET q == querySyncCore(s, ROLLBACK, s.txs[t].tid, TRUE)
    IN  IF q.promise = 0
        THEN [q.s EXCEPT !.txs[t].error = err,
                         !.txs[t].rollbackOutcome = Throw(q.err),
                         !.txs[t].pc = "done",
                         !.txs[t].outcome = Throw(q.err)]
        ELSE [q.s EXCEPT !.txs[t].error = err,
                         !.txs[t].pc = "rollback",
                         !.txs[t].waitId = q.promise]

\* A variant whose COMMIT is not marked as the finishing message.
commitStepNoFinish(s, t, v) ==
    LET s1 == [s EXCEPT !.txs[t].result = v, !.txs[t].bodyOutcome = Return(v)]
        q == querySyncCore(s1, COMMIT, s1.txs[t].tid, FALSE)
    IN  IF q.promise = 0
        THEN catchBlock([q.s EXCEPT !.txs[t].commitOutcome = Throw(q.err)], t, q.err)
        ELSE [q.s EXCEPT !.txs[t].pc = "commit", !.txs[t].waitId = q.promise]

\* result = <the body's value>; await this.querySync("COMMIT TRANSACTION", transactionId, true);
commitStep(s, t, v) ==
    LET s1 == [s EXCEPT !.txs[t].result = v, !.txs[t].bodyOutcome = Return(v)]
        q == querySyncCore(s1, COMMIT, s1.txs[t].tid, TRUE)
    IN  IF q.promise = 0
        THEN catchBlock([q.s EXCEPT !.txs[t].commitOutcome = Throw(q.err)], t, q.err)
        ELSE [q.s EXCEPT !.txs[t].pc = "commit", !.txs[t].waitId = q.promise]

\* The body failed with err: control reaches the catch block.
bodyFailed(s, t, err) ==
    catchBlock([s EXCEPT !.txs[t].bodyOutcome = Throw(err)], t, err)

\* result = await queriesFunction(this), up to the body's first suspension.
callBody(s, t) ==
    LET args == BodyArguments(s, t)
        s1 == [s EXCEPT !.txs[t].bodyArg = args.transactionId]
    IN  CASE s.txs[t].body = "documented" ->
                LET q == querySyncCore(s1, UPDATE, args.transactionId, FALSE)
                IN  IF q.promise = 0
                    THEN bodyFailed(q.s, t, q.err)
                    ELSE [q.s EXCEPT !.txs[t].pc = "body", !.txs[t].waitId = q.promise]
          [] s.txs[t].body = "throws" -> bodyFailed(s1, t, BodyError)
          [] s.txs[t].body = "returns" -> commitStep(s1, t, BodyValue)

\* The continuation of transaction() once the promise it awaits is settled:
\* ok = resolved with val, otherwise rejected with val.
resumeTx(s, t, ok, val) ==
    LET tx == s.txs[t]
    IN  CASE tx.pc = "begin" ->
                IF ok THEN callBody(s, t) ELSE catchBlock(s, t, val)
          [] tx.pc = "body" ->
                IF ok THEN commitStep(s, t, val) ELSE bodyFailed(s, t, val)
          [] tx.pc = "commit" ->
                IF ok
                THEN [s EXCEPT !.txs[t].commitOutcome = Return(val),
                               !.txs[t].pc = "done",
                               !.txs[t].outcome = Return(tx.result)]
                ELSE catchBlock([s EXCEPT !.txs[t].commitOutcome = Throw(val)], t, val)
          [] tx.pc = "rollback" ->
                IF ok
                THEN [s EXCEPT !.txs[t].rollbackOutcome = Return(val),
                               !.txs[t].pc = "done",
                               !.txs[t].outcome = Throw(tx.error)]
                ELSE [s EXCEPT !.txs[t].rollbackOutcome = Throw(val),
                               !.txs[t].pc = "done",
                               !.txs[t].outcome = Throw(val)]
          [] OTHER -> s

\* const transactionId = this.transactionCount++; await this.querySync("BEGIN TRANSACTION", transactionId);
transactionCore(s, body) ==
    LET tid == s.transactionCount
        t == Len(s.txs) + 1
        s1 == [s EXCEPT !.transactionCount = tid + 1, !.txs = Append(@, NewTx(tid, body))]
        q == querySyncCore(s1, BEGIN, tid, FALSE)
    IN  IF q.promise = 0
        THEN catchBlock(q.s, t, q.err)
        ELSE [q.s EXCEPT !.txs[t].pc = "begin", !.txs[t].waitId = q.promise]

----------------------------------------------------------------------------
\* The response path: jsonParser "data" -> onSQLResponse, then querySync's listeners

\* What the helper may answer: an error, or a result list of one or of two result sets.
Replies ==
    {[error |-> TRUE, sets |-> 0], [error |-> FALSE, sets |-> 1], [error |-> FALSE, sets |-> 2]}

\* The answers to statements that produce no more than one result set.
SingleStatementReplies == {reply \in Replies : reply.sets <= 1}

\* The record the decoder yields for the helper's answer to request msgId.
JsonMsg(msgId, reply) == [msgId |-> msgId, error |-> reply.error, sets |-> reply.sets]

\* let result = jsonMsg.result; if (result.length === 1) result = result[0];
Unwrapped(jsonMsg) == IF jsonMsg.sets = 1 THEN "set" ELSE "list"

\* jsonMsg.result as it is.
AsReceived(jsonMsg) == "list"

\* The completion of a waiter is signalled with the record jsonMsg and a value of this shape.
Settle(w, jsonMsg, shape) ==
    [w EXCEPT !.state = IF jsonMsg.error THEN "rejected" ELSE "resolved",
              !.src = jsonMsg.msgId,
              !.calls = @ + 1,
              !.sets = jsonMsg.sets,
              !.shape = shape]

\* A variant that hands the result list to the callback as it was received.
onSQLResponseNoUnwrap(s, jsonMsg) ==
    LET request == s.currentMessages[jsonMsg.msgId]
        s1 == [s EXCEPT !.currentMessages = Remove(@, jsonMsg.msgId)]
    IN  IF request.callback = "function"
        THEN [s1 EXCEPT !.waiter[jsonMsg.msgId] = Settle(@, jsonMsg, AsReceived(jsonMsg))]
        ELSE s1

\* onSQLResponse: take the request out of the table and call its callback, if it has one.
onSQLResponse(s, jsonMsg) ==
    LET request == s.currentMessages[jsonMsg.msgId]
        s1 == [s EXCEPT !.currentMessages = Remove(@, jsonMsg.msgId)]
    IN  IF request.callback = "function"
        THEN [s1 EXCEPT !.waiter[jsonMsg.msgId] = Settle(@, jsonMsg, Unwrapped(jsonMsg))]
        ELSE s1

\* The listener querySync attached for the promise `l`: it compares the record's id
\* with this.queryCount as it is when the record arrives.
onResponse(s, l, jsonMsg) ==
    IF jsonMsg.msgId = s.queryCount
    THEN [s EXCEPT !.listeners = SelectSeq(@, LAMBDA x : x # l),
                   !.waiter[l] = Settle(@, jsonMsg, AsReceived(jsonMsg))]
    ELSE s

\* emit("data", jsonMsg) to the listeners attached by querySync, in order of attachment.
RECURSIVE emitData(_, _, _)
emitData(s, ls, jsonMsg) ==
    IF ls = <<>> THEN s
    ELSE emitData(onResponse(s, Head(ls), jsonMsg), Tail(ls), jsonMsg)

Awaiting == {"begin", "body", "commit", "rollback"}

\* The transaction() calls suspended on promise l.
AwaitingTx(s, l) == {t \in 1..Len(s.txs) : s.txs[t].pc \in Awaiting /\ s.txs[t].waitId = l}

\* The continuations released by settling the promises ls, run in the order of settlement.
RECURSIVE runContinuations(_, _, _)
runContinuations(s, ls, jsonMsg) ==
    IF ls = <<>> THEN s
    ELSE LET l == Head(ls)
             ts == AwaitingTx(s, l)
             val == IF jsonMsg.error
                    THEN QueryFailedError(jsonMsg.msgId, s.waiter[l].sql)
                    ELSE ResultOf(jsonMsg.msgId)
             s1 == IF ts = {} THEN s
                   ELSE resumeTx(s, CHOOSE t \in ts : TRUE, ~jsonMsg.error, val)
         IN  runContinuations(s1, Tail(ls), jsonMsg)

\* One decoded record, handled to completion: onSQLResponse first (attached at the
\* handshake), then the querySync listeners, then the continuations of the settled promises.
dataEvent(s, jsonMsg) ==
    LET s1 == onSQLResponse(s, jsonMsg)
        s2 == emitData(s1, s1.listeners, jsonMsg)
        settled == SelectSeq(s1.listeners, LAMBDA l : s2.waiter[l].state # "pending")
    IN  runContinuations(s2, settled, jsonMsg)

----------------------------------------------------------------------------
\* Results of calls, the helper's output, disconnectSync

CallResult(op, err) == [op |-> op, err |-> err]

NoCallResult == CallResult("none", NoError)

\* The step signals no error to a caller at once.
NoSignal == lastError' = NoCallResult

TypeError == [type |-> "TypeError", src |-> 0, at |-> "disconnect"]

\* onSQLResponse reads request.hrstart of a request that is not in the table.
UncaughtTypeError == [type |-> "TypeError", src |-> 0, at |-> "onSQLResponse"]

\* The caller stops calling once the bound on dispatched requests is reached.
Room == queryCount < MaxRequests

\* connect(callback) completes through the callback, connectAsync() through a promise.
ConnectModes == {"callback", "promise"}

\* A "data" event of stderr carries whatever the pipe holds, one line or several. A line
\* is a log line of the connection pool, which contains one of the patterns the stderr
\* handler looks for ("info"), or any other line ("other").
StderrChunks == {<<"info">>, <<"other">>, <<"info", "other">>, <<"other", "info">>}

\* errorMessage.includes('[main] INFO') || ... || errorMessage.includes('WARN'): the
\* text of the whole chunk is searched, so one matching line is enough.
isInformational(errorMessage) == \E i \in 1..Len(errorMessage) : errorMessage[i] = "info"

\* calls: how many times the outcome was signalled, by calling the callback or by
\* settling the promise.
NoConnectCall == [mode |-> "none", state |-> "none", text |-> <<>>, calls |-> 0]

NewConnectCall(mode) == [mode |-> mode, state |-> "pending", text |-> <<>>, calls |-> 0]

\* const error = new Error(errorMessage); if (callback) callback(error, null); else
\* reject(error). The callback is called; reject() of a settled promise does nothing.
connectFailed(call, errorMessage) ==
    IF call.mode = "promise" /\ call.state # "pending"
    THEN call
    ELSE [call EXCEPT !.state = "failed", !.text = errorMessage, !.calls = @ + 1]

\* After the handshake neither handler of connectCore can reach callback, resolve or
\* reject again: the call is over, whichever way it was made.
Connected == [mode |-> "over", state |-> "connected", text |-> <<"connected">>, calls |-> 1]

\* The `code` of an "exit" event of a helper that a signal terminated: null.
Null == -1

\* The codes an "exit" event may carry: null, 0, a failure code, and 143, the code of a
\* JVM that shut down on SIGTERM.
ExitCodes == {Null, 0, 1, 143}

\* this.javaDB.kill(): the signal is sent if the helper is alive.
kill(s) == [s EXCEPT !.killed = @ \/ s.javaDB \in {"starting", "running"}]

\* The promise of a disconnectSync() call: pending, resolved at once because the
\* instance was not connected, or settled by the "exit" listener with the exit code.
PendingDisconnect == [state |-> "pending", via |-> "none", code |-> Null]

ResolvedAtOnce == [state |-> "resolved", via |-> "notConnected", code |-> Null]

\* A variant of the "exit" listener that takes only 0 for a clean exit.
onExitStrict(code) ==
    [state |-> IF code # Null /\ code # 0 THEN "rejected" ELSE "resolved",
     via |-> "exit", code |-> code]

\* The "exit" listener of disconnectSync:
\* if (code !== null && code !== 0 && code !== 143) reject(...) else resolve().
onExit(code) ==
    [state |-> IF code # Null /\ code # 0 /\ code # 143 THEN "rejected" ELSE "resolved",
     via |-> "exit", code |-> code]

\* this.disconnectSync(). (Its "error" listener is left out: the helper was spawned.)
disconnectSync(s) ==
    IF ~s.connected
    THEN [s EXCEPT !.dsync = Append(@, ResolvedAtOnce)]
    ELSE [kill(s) EXCEPT !.dsync = Append(@, PendingDisconnect)]

\* The "exit" event of the helper: every "exit" listener attached so far runs. There is
\* one for each disconnectSync promise that is pending, and there is no other.
exitEvent(s, code) ==
    LET observed == \E i \in 1..Len(s.dsync) : s.dsync[i].state = "pending"
    IN  [s EXCEPT !.javaDB = "exited",
                  !.connected = IF observed THEN FALSE ELSE @,
                  !.dsync = [i \in 1..Len(s.dsync) |->
                                IF s.dsync[i].state = "pending" THEN onExit(code) ELSE s.dsync[i]]]

----------------------------------------------------------------------------
\* module.exports.query(config, sql)

\* new Error(`Java process exited with code ${code}`)
AbnormalExitError(code) == [type |-> "AbnormalExit", src |-> code, at |-> "disconnectSync"]

\* The error connectAsync() is rejected with.
StartupError == [type |-> "StartupFailure", src |-> 0, at |-> "connectAsync"]

\* pc: where the async function is suspended; id: the request of its querySync; promise:
\* the disconnectSync promise it awaits; error: the `error` of its catch block;
\* queryOutcome: how the awaited querySync ended; outcome: how query() ended.
NoOneShot ==
    [pc |-> "none", sql |-> "none", id |-> 0, promise |-> 0, error |-> NoError,
     queryOutcome |-> Pending, outcome |-> Pending]

\* const db = await module.exports.connect(config) has resolved: the try block starts
\* with db.querySync(sql).
oneShotConnected(s) ==
    IF s.oneShot.pc # "connecting"
    THEN s
    ELSE LET r == querySyncCore(s, s.oneShot.sql, Undefined, FALSE)
         IN  [r.s EXCEPT !.oneShot.pc = "querying", !.oneShot.id = r.promise]

\* await module.exports.connect(config) has thrown, before the try block.
oneShotConnectFailed(s) ==
    IF s.oneShot.pc # "connecting"
    THEN s
    ELSE [s EXCEPT !.oneShot.pc = "done", !.oneShot.outcome = Throw(StartupError)]

\* The catch block: await db.disconnectSync(); throw error.
oneShotCatch(s, error) ==
    LET s1 == disconnectSync(s)
    IN  [s1 EXCEPT !.oneShot.pc = "catch", !.oneShot.error = error,
                   !.oneShot.promise = Len(s1.dsync)]

\* The async function goes on for as long as the promise it awaits is settled.
RECURSIVE resumeOneShot(_)
resumeOneShot(s) ==
    LET o == s.oneShot
    IN  CASE o.pc = "querying" /\ s.waiter[o.id].state # "pending" ->
                LET w == s.waiter[o.id]
                IN  IF w.state = "resolved"
                    THEN LET s1 == disconnectSync(s)
                         IN  resumeOneShot(
                                 [s1 EXCEPT !.oneShot.pc = "try",
                                            !.oneShot.queryOutcome = Return(ResultOf(w.src)),
                                            !.oneShot.promise = Len(s1.dsync)])
                    ELSE LET error == QueryFailedError(w.src, w.sql)
                         IN  resumeOneShot(
                                 [oneShotCatch(s, error) EXCEPT
                                     !.oneShot.queryOutcome = Throw(error)])
          [] o.pc = "try" /\ s.dsync[o.promise].state = "resolved" ->
                [s EXCEPT !.oneShot.pc = "done", !.oneShot.outcome = o.queryOutcome]
          [] o.pc = "try" /\ s.dsync[o.promise].state = "rejected" ->
                resumeOneShot(oneShotCatch(s, AbnormalExitError(s.dsync[o.promise].code)))
          [] o.pc = "catch" /\ s.dsync[o.promise].state = "resolved" ->
                [s EXCEPT !.oneShot.pc = "done", !.oneShot.outcome = Throw(o.error)]
          [] o.pc = "catch" /\ s.dsync[o.promise].state = "rejected" ->
                [s EXCEPT !.oneShot.pc = "done",
                          !.oneShot.outcome = Throw(AbnormalExitError(s.dsync[o.promise].code))]
          [] OTHER -> s

\* The instance belongs to the user of the library, not to a call of query(config, sql),
\* which keeps the instance it creates to itself.
UserInstance == oneShot.pc = "none"

----------------------------------------------------------------------------
\* Actions

Init ==
    /\ connected = FALSE
    /\ javaDB = "none"
    /\ killed = FALSE
    /\ hasConnected = FALSE
    /\ stdoutData = FALSE
    /\ stderrData = FALSE
    /\ connectCall = NoConnectCall
    /\ connectedWritten = FALSE
    /\ queryCount = 0
    /\ transactionCount = 0
    /\ currentMessages = EmptyMap
    /\ listeners = <<>>
    /\ stdin = <<>>
    /\ waiter = EmptyMap
    /\ txs = <<>>
    /\ decoded = {}
    /\ dsync = <<>>
    /\ oneShot = NoOneShot
    /\ lastError = NoCallResult

\* this.connect(callback) or this.connectAsync(): spawn the helper and attach the
\* handlers of its stdout and stderr.
Connect(mode) ==
    /\ UserInstance
    /\ javaDB = "none"
    /\ Apply([Host EXCEPT !.javaDB = "starting"])
    /\ stdoutData' = TRUE
    /\ stderrData' = TRUE
    /\ connectCall' = NewConnectCall(mode)
    /\ NoSignal
    /\ UNCHANGED <<hasConnected, connectedWritten, decoded>>

\* What the helper writes to stdout while it starts, as pieces of text: the text of a
\* debug line, the text of the line `connected`, and the line terminator.
DEBUG == "DEBUG: ..."
CONNECTED == "connected"
NewLine == "\n"

\* A "data" event of stdout carries whatever the pipe holds: a debug line, the line
\* `connected`, both, or a piece that starts or ends inside the output.
ConnectedAlone == <<CONNECTED, NewLine>>

StdoutChunks ==
    {<<DEBUG, NewLine>>, <<DEBUG>>, ConnectedAlone, <<NewLine, CONNECTED, NewLine>>,
     <<DEBUG, NewLine, CONNECTED, NewLine>>}

HasConnectedLine(data) == \E i \in 1..Len(data) : data[i] = CONNECTED

\* String.prototype.trim(): the white space at both ends goes, the rest stays.
RECURSIVE trimStart(_)
trimStart(str) ==
    IF str # <<>> /\ Head(str) = NewLine THEN trimStart(Tail(str)) ELSE str

RECURSIVE trimEnd(_)
trimEnd(str) ==
    IF str # <<>> /\ str[Len(str)] = NewLine THEN trimEnd(SubSeq(str, 1, Len(str) - 1)) ELSE str

trim(str) == trimEnd(trimStart(str))

\* dataStr = data.toString().trim(); dataStr === "connected"
isHandshake(data) == trim(data) = <<CONNECTED>>

\* The stdout "data" handler of connectCore, for what the helper writes before it
\* reads requests: its debug lines, then the line `connected`, once. Without the
\* listener (removed by the stderr handler) the text is read by nobody.
StdoutData(data) ==
    /\ javaDB = "starting"
    /\ ~connectedWritten
    /\ connectedWritten' = HasConnectedLine(data)
    /\ IF stdoutData /\ ~hasConnected /\ isHandshake(data)
       THEN /\ hasConnected' = TRUE
            /\ stderrData' = FALSE
            /\ Apply(oneShotConnected([Host EXCEPT !.connected = TRUE, !.javaDB = "running"]))
            /\ connectCall' = Connected
       ELSE UNCHANGED <<hostVars, hasConnected, stderrData, connectCall>>
    /\ NoSignal
    /\ UNCHANGED <<stdoutData, decoded>>

\* The line `connected` arrives in a read of its own.
Handshake == StdoutData(ConnectedAlone)

\* The stderr "data" handler of connectCore: a chunk that contains one of the patterns
\* is only logged; any other chunk, before the handshake, removes the stdout listeners,
\* kills the helper and fails the connect call with the chunk's text.
StderrData(errorMessage) ==
    /\ javaDB = "starting"
    /\ stderrData
    /\ IF isInformational(errorMessage) \/ hasConnected
       THEN UNCHANGED <<hostVars, stdoutData, connectCall>>
       ELSE /\ connectCall.calls < MaxSignals    \* the exploration stops at the bound
            /\ stdoutData' = FALSE
            /\ Apply(oneShotConnectFailed(kill(Host)))
            /\ connectCall' = connectFailed(connectCall, errorMessage)
    /\ NoSignal
    /\ UNCHANGED <<hasConnected, stderrData, connectedWritten, decoded>>

\* The helper exits, by itself or after a signal. connectCore registers no handler for
\* the helper's exit: only the listeners of disconnectSync run.
ChildExit(code) ==
    /\ javaDB \in {"starting", "running"}
    /\ Apply(resumeOneShot(exitEvent(Host, code)))
    /\ NoSignal
    /\ UNCHANGED <<startVars, decoded>>

\* this.disconnect(): this.javaDB.kill(); this.connected = false.
Disconnect ==
    /\ UserInstance
    /\ IF javaDB = "none"
       THEN /\ lastError' = CallResult("disconnect", TypeError)
            /\ UNCHANGED hostVars
       ELSE /\ Apply([kill(Host) EXCEPT !.connected = FALSE])
            /\ NoSignal
    /\ UNCHANGED <<startVars, decoded>>

\* this.disconnectSync()
DisconnectSync ==
    /\ UserInstance
    /\ Len(dsync) < MaxDisconnects
    /\ Apply(disconnectSync(Host))
    /\ NoSignal
    /\ UNCHANGED <<startVars, decoded>>

\* this.query(sql, callback)
Query ==
    /\ UserInstance
    /\ Room
    /\ LET r == queryCore(Host, SELECT, "function")
       IN  /\ Apply(r.s)
           /\ lastError' = IF r.err = NoError THEN NoCallResult ELSE CallResult("query", r.err)
    /\ UNCHANGED <<startVars, decoded>>

\* this.querySync(sql)
QuerySync ==
    /\ UserInstance
    /\ Room
    /\ LET r == querySyncCore(Host, SELECT, Undefined, FALSE)
       IN  /\ Apply(r.s)
           /\ lastError' = IF r.err = NoError THEN NoCallResult ELSE CallResult("querySync", r.err)
    /\ UNCHANGED <<startVars, decoded>>

\* this.transaction(body), up to its first suspension.
Transaction(body) ==
    /\ UserInstance
    /\ Len(txs) < MaxTx
    /\ Room
    /\ Apply(transactionCore(Host, body))
    /\ NoSignal
    /\ UNCHANGED <<startVars, decoded>>

\* The helper answers request id and the host decodes the record.
Response(id, reply) ==
    /\ javaDB = "running"
    /\ id \in 1..Len(stdin)
    /\ id \notin decoded
    /\ decoded' = decoded \cup {id}
    /\ LET s == resumeOneShot(dataEvent(Host, JsonMsg(id, reply)))
       IN  /\ s.queryCount <= MaxRequests    \* the exploration stops at the bound
           /\ Apply(s)
    /\ NoSignal
    /\ UNCHANGED startVars

\* module.exports.query(config, sql), up to its first suspension: createConnection(config)
\* makes an instance of its own and connectAsync() spawns the helper.
OneShotQuery(sql) ==
    /\ UserInstance
    /\ javaDB = "none" /\ dsync = <<>> /\ lastError = NoCallResult    \* the instance is new
    /\ Apply([Host EXCEPT !.javaDB = "starting",
                          !.oneShot = [NoOneShot EXCEPT !.pc = "connecting", !.sql = sql]])
    /\ stdoutData' = TRUE
    /\ stderrData' = TRUE
    /\ connectCall' = NewConnectCall("promise")
    /\ NoSignal
    /\ UNCHANGED <<hasConnected, connectedWritten, decoded>>

\* The decoder emits a record whose msgId is not in the table: an id never issued, or
\* one already answered. onSQLResponse finds no request, `delete` removes nothing, and
\* process.hrtime(request.hrstart) throws inside the "data" event; the exception leaves
\* the emitter, so the querySync listeners attached after onSQLResponse are not called.
UnknownResponse ==
    /\ javaDB = "running"
    /\ \E id \in 1..MaxRequests : id \notin DOMAIN currentMessages
    /\ lastError' = CallResult("data", UncaughtTypeError)
    /\ UNCHANGED <<hostVars, startVars, decoded>>

Next ==
    \/ \E mode \in ConnectModes : Connect(mode)
    \/ \E data \in StdoutChunks : StdoutData(data)
    \/ \E errorMessage \in StderrChunks : StderrData(errorMessage)
    \/ \E code \in ExitCodes : ChildExit(code)
    \/ Disconnect
    \/ Query
    \/ QuerySync
    \/ \E body \in BodyKinds : Transaction(body)
    \/ \E id \in 1..MaxRequests, reply \in SingleStatementReplies : Response(id, reply)
    \/ UnknownResponse

\* Here every statement sent produces one result set; ShapeSpec sends batches as well.
Spec == Init /\ [][Next]_vars

\* The event loop runs the handler of every event that has occurred, and a live helper
\* answers the requests it has read: the handshake and the responses are not postponed
\* forever. Nothing obliges the caller to call, or the helper to exit.
FairSpec ==
    /\ Spec
    /\ WF_vars(Handshake)
    /\ WF_vars(\E id \in 1..MaxRequests, reply \in SingleStatementReplies : Response(id, reply))

\* The caller sends single statements and batches, by query and by querySync, over a
\* connection that stays up: the helper answers with one result set or with several.
ShapeNext ==
    \/ \E mode \in ConnectModes : Connect(mode)
    \/ \E data \in StdoutChunks : StdoutData(data)
    \/ Query
    \/ QuerySync
    \/ \E id \in 1..MaxRequests, reply \in Replies : Response(id, reply)

ShapeSpec == Init /\ [][ShapeNext]_vars

\* The life of the helper process: the caller connects, queries, and disconnects with
\* disconnect() or disconnectSync(); the helper writes to stderr, answers, and exits.
LifecycleNext ==
    \/ \E mode \in ConnectModes : Connect(mode)
    \/ \E sql \in {SELECT, UPDATE} : OneShotQuery(sql)
    \/ \E data \in StdoutChunks : StdoutData(data)
    \/ \E errorMessage \in StderrChunks : StderrData(errorMessage)
    \/ \E code \in ExitCodes : ChildExit(code)
    \/ Disconnect
    \/ DisconnectSync
    \/ Query
    \/ QuerySync
    \/ \E id \in 1..MaxRequests, reply \in SingleStatementReplies : Response(id, reply)

LifecycleSpec == Init /\ [][LifecycleNext]_vars

\* As in FairSpec; and a helper that was sent the termination signal exits.
FairLifecycleSpec ==
    /\ LifecycleSpec
    /\ WF_vars(Handshake)
    /\ WF_vars(\E id \in 1..MaxRequests, reply \in SingleStatementReplies : Response(id, reply))
    /\ WF_vars(killed /\ \E code \in ExitCodes : ChildExit(code))

----------------------------------------------------------------------------
\* Properties

Requests == DOMAIN waiter

IsPending(id) == waiter[id].state = "pending"

\* The helper exited by itself, after the handshake, without a signal from the host.
HelperCrashed == javaDB = "exited" /\ hasConnected /\ ~killed

\* The control messages written for the transaction with this id, in order.
ControlMessages(tid) ==
    SelectSeq(stdin, LAMBDA m : m.transId = tid /\ m.sql \in {BEGIN, COMMIT, ROLLBACK})

\* The finishing messages written for the transaction with this id, in order.
FinishingMessages(tid) ==
    SelectSeq(stdin, LAMBDA m : m.transId = tid /\ m.finishTrans)

\* Every querySync call of transaction t found the connection Connected: none was
\* rejected at once with the not-connected error.
FoundConnected(t) ==
    /\ txs[t].error.type # "NotConnected"
    /\ txs[t].rollbackOutcome.val.type # "NotConnected"

WireMsg(id, tid, fin, sql) == [msgId |-> id, transId |-> tid, finishTrans |-> fin, sql |-> sql]

\* C1: every waiter that has been completed was completed with the response record
\* whose msgId is the id of its own request.
C1_EachWaiterGetsItsOwnResponse ==
    \A id \in Requests : ~IsPending(id) => waiter[id].src = id

\* C2: once the response record bearing the id of a querySync request has been decoded,
\* the caller of that querySync is completed.
C2_QuerySyncCompletedByItsResponse ==
    \A id \in decoded : waiter[id].mode = "querySync" => ~IsPending(id)

\* C3: a query or querySync call made while not Connected signals the not-connected
\* error and leaves the pending-request table, the request counter and stdin unchanged.
C3_NotConnectedCallLeavesNoTrace ==
    [][(~connected /\ (Query \/ QuerySync))
         => /\ lastError'.op \in {"query", "querySync"}
            /\ lastError'.err.type = "NotConnected"
            /\ UNCHANGED <<currentMessages, queryCount, stdin>>]_vars

\* C3 witness: a call was refused after the connection had been in use: requests are
\* still registered and stdin has been written to.
C3_Witness ==
    /\ lastError.op \in {"query", "querySync"}
    /\ lastError.err.type = "NotConnected"
    /\ DOMAIN currentMessages # {}
    /\ stdin # <<>>

\* C4: when the helper has exited unexpectedly after the handshake, eventually no
\* waiter is pending and the pending-request table is empty.
C4_CrashCompletesEveryWaiter ==
    HelperCrashed ~> (DOMAIN currentMessages = {} /\ \A id \in Requests : ~IsPending(id))

\* C5: after the helper has exited unexpectedly following the handshake, the
\* connection is not Connected.
C5_NotConnectedAfterCrash ==
    HelperCrashed => ~isConnected(Host)

\* C6: a transaction whose body returned and whose COMMIT succeeded wrote exactly BEGIN
\* then COMMIT, both with its id, only COMMIT finishing, and returned the body's value.
C6_SuccessPath ==
    \A t \in 1..Len(txs) :
        (txs[t].bodyOutcome.kind = "return" /\ txs[t].commitOutcome.kind = "return")
        => LET cm == ControlMessages(txs[t].tid)
           IN  /\ Len(cm) = 2
               /\ cm[1] = WireMsg(cm[1].msgId, txs[t].tid, FALSE, BEGIN)
               /\ cm[2] = WireMsg(cm[2].msgId, txs[t].tid, TRUE, COMMIT)
               /\ txs[t].outcome = Return(txs[t].bodyOutcome.val)

\* C6 witness: a transaction with the documented body (one query of its own) has
\* committed and returned.
C6_Witness ==
    \E t \in 1..Len(txs) :
        /\ txs[t].body = "documented"
        /\ txs[t].bodyOutcome.kind = "return"
        /\ txs[t].commitOutcome.kind = "return"
        /\ txs[t].pc = "done"

\* C7: a finished transaction whose body failed with E wrote exactly BEGIN then
\* ROLLBACK, both with its id, ROLLBACK finishing, and failed with E itself. Stated for
\* the transactions whose calls all found the connection Connected.
C7_FailurePath ==
    \A t \in 1..Len(txs) :
        (txs[t].pc = "done" /\ txs[t].bodyOutcome.kind = "throw" /\ FoundConnected(t))
        => LET cm == ControlMessages(txs[t].tid)
           IN  /\ Len(cm) = 2
               /\ cm[1] = WireMsg(cm[1].msgId, txs[t].tid, FALSE, BEGIN)
               /\ cm[2] = WireMsg(cm[2].msgId, txs[t].tid, TRUE, ROLLBACK)
               /\ txs[t].outcome = Throw(txs[t].bodyOutcome.val)

\* C8: when the body failed with E and the ROLLBACK query failed with a different
\* error R, transaction() fails with E. Stated for the transactions whose calls all found
\* the connection Connected, so that R is the helper's answer to the ROLLBACK.
C8_OriginalErrorTakesPrecedence ==
    \A t \in 1..Len(txs) :
        (/\ txs[t].pc = "done"
         /\ FoundConnected(t)
         /\ txs[t].bodyOutcome.kind = "throw"
         /\ txs[t].rollbackOutcome.kind = "throw"
         /\ txs[t].rollbackOutcome.val # txs[t].bodyOutcome.val)
        => txs[t].outcome = Throw(txs[t].bodyOutcome.val)

\* C9: never more than one finishing message is written for a transaction id, and a
\* finished transaction() has written exactly one. Stated for the transactions whose
\* calls all found the connection Connected.
C9_ExactlyOneFinishingMessage ==
    \A t \in 1..Len(txs) :
        FoundConnected(t)
        => /\ Len(FinishingMessages(txs[t].tid)) <= 1
           /\ txs[t].pc = "done" => Len(FinishingMessages(txs[t].tid)) = 1

\* C10: the request the documented body issues with the transactionId it was given
\* carries the id of its transaction.
C10_BodyQueriesCarryTransactionId ==
    \A t \in 1..Len(txs) :
        (txs[t].body = "documented" /\ txs[t].pc = "body")
        => stdin[txs[t].waitId].transId = txs[t].tid

\* The shape the claim gives the value of an error-free record: the single result set
\* when the result list has one element, the list when it has two or more.
ExpectedShape(sets) == IF sets = 1 THEN "set" ELSE "list"

\* C11 (as stated): every waiter completed with an error-free record, by callback or by
\* promise, was given the single result set when the record has one, the list otherwise.
C11_UnwrappedInBothModes ==
    \A id \in Requests :
        waiter[id].state = "resolved" => waiter[id].shape = ExpectedShape(waiter[id].sets)

\* C11 (amended): a callback is given the single result set when the record has one and
\* the list otherwise; a querySync promise is always resolved with the list as received.
C11_UnwrappedForCallbacksOnly ==
    \A id \in Requests :
        waiter[id].state = "resolved"
        => waiter[id].shape = IF waiter[id].mode = "query"
                              THEN ExpectedShape(waiter[id].sets)
                              ELSE "list"

\* C11 witness: a callback and a querySync promise have each been completed with a
\* record of one result set, and another waiter with a record of two.
C11_Witness ==
    /\ \E id \in Requests :
          waiter[id].mode = "query" /\ waiter[id].state = "resolved" /\ waiter[id].sets = 1
    /\ \E id \in Requests :
          waiter[id].mode = "querySync" /\ waiter[id].state = "resolved" /\ waiter[id].sets = 1
    /\ \E id \in Requests : waiter[id].state = "resolved" /\ waiter[id].sets = 2

\* C12 (as stated): a record whose msgId is not in the table is dropped silently: no
\* error is raised, no completion handler is invoked, and the table and the connection
\* state are as before.
C12_UnknownIdSilentlyDropped ==
    [][UnknownResponse
       => /\ lastError' = NoCallResult
          /\ UNCHANGED <<currentMessages, waiter, connected>>]_vars

\* C13 (as stated): the completion of each dispatched request, callback or promise, is
\* signalled at most once, and once it has been signalled the request's entry is no
\* longer in the table. (No step runs onSQLError, the failure broadcast: nothing calls it.)
C13_SignalledOnceAndEntryRemoved ==
    \A id \in Requests :
        /\ waiter[id].calls <= 1
        /\ waiter[id].calls = 1 => id \notin DOMAIN currentMessages

\* The chunk holds a line that matches none of the informational patterns.
HasOtherLine(errorMessage) == \E i \in 1..Len(errorMessage) : errorMessage[i] = "other"

\* C14 (as stated): before the handshake, stderr output made of informational lines only
\* changes no state, and stderr output with any other line is fatal: the helper is
\* killed and the connect call fails with that text; and a connect call that failed
\* this way never finds the connection Connected.
C14_StderrBeforeHandshake ==
    /\ [][\A errorMessage \in StderrChunks :
            StderrData(errorMessage)
            => IF HasOtherLine(errorMessage)
               THEN /\ killed'
                    /\ connectCall'.state = "failed"
                    /\ connectCall'.text = errorMessage
               ELSE UNCHANGED <<hostVars, startVars>>]_vars
    /\ [](connectCall.state = "failed" => ~connected)

\* C15 (as stated): every connect()/connectAsync() call is eventually completed, with
\* success or with a startup failure, also when the helper exits without the handshake.
C15_ConnectEventuallyCompletes ==
    (connectCall.state = "pending") ~> (connectCall.state \in {"connected", "failed"})

\* C16 (as stated): every disconnectSync() promise is settled eventually, in whatever
\* state the call was made.
C16_DisconnectSyncEventuallySettles ==
    \A i \in 1..MaxDisconnects :
        (Len(dsync) >= i /\ dsync[i].state = "pending")
        ~> (Len(dsync) >= i /\ dsync[i].state # "pending")

\* C17 (as stated): disconnect() or disconnectSync() called while the instance is not
\* connected raises no error, sends no signal to the helper, and leaves the instance
\* not connected; the promise of such a disconnectSync() call is resolved.
C17_DisconnectIsIdempotent ==
    /\ [][(~connected /\ (Disconnect \/ DisconnectSync))
          => /\ lastError' = NoCallResult
             /\ killed' = killed
             /\ ~connected']_vars
    /\ [][(~connected /\ DisconnectSync) => dsync'[Len(dsync')] = ResolvedAtOnce]_vars

\* C18: a disconnectSync() promise settled by the helper's exit is rejected exactly when
\* the exit carries a code other than 0 and 143, and resolved otherwise; either way the
\* instance is not connected once the exit was observed.
C18_AbnormalExitCodesRejected ==
    \A i \in 1..Len(dsync) :
        dsync[i].via = "exit"
        => /\ dsync[i].state = "rejected" <=> (dsync[i].code # Null /\ dsync[i].code \notin {0, 143})
           /\ dsync[i].state = "resolved" <=> (dsync[i].code = Null \/ dsync[i].code \in {0, 143})
           /\ ~connected

\* C18 witness: after the handshake and a signal, the helper exited with a failure code
\* and the "exit" listener rejected a disconnectSync() promise.
C18_Witness ==
    \E i \in 1..Len(dsync) :
        /\ dsync[i].via = "exit"
        /\ dsync[i].state = "rejected"
        /\ dsync[i].code = 1
        /\ javaDB = "exited"
        /\ hasConnected
        /\ killed

\* C19: the ids of the requests dispatched by an instance, in the order of their
\* dispatch, start above zero and strictly increase, so none is used twice; and every
\* key of the table is an id that was assigned, at most the request counter.
C19_RequestIdsUnique ==
    /\ \A i \in 1..Len(stdin) :
          /\ stdin[i].msgId > 0
          /\ stdin[i].msgId <= queryCount
          /\ \A j \in 1..(i - 1) : stdin[j].msgId < stdin[i].msgId
    /\ \A k \in DOMAIN currentMessages :
          /\ k <= queryCount
          /\ \E i \in 1..Len(stdin) : stdin[i].msgId = k

\* C19 witness: three requests were dispatched, the first was answered and removed from
\* the table before the third was dispatched, and the third is still in the table.
C19_Witness ==
    /\ Len(stdin) >= 3
    /\ 1 \notin DOMAIN currentMessages
    /\ 3 \in DOMAIN currentMessages
    /\ waiter[1].state # "pending"
    /\ waiter[1].src = 1

\* The call of query(config, sql) has ended after its querySync was settled.
OneShotRan == oneShot.pc = "done" /\ oneShot.queryOutcome # Pending

\* C20 (as stated): once query(config, sql) has run its query and ended, it has called
\* disconnectSync, the instance is not connected, and it returned the query's result if
\* the query succeeded and failed with the query's own error if the query failed.
C20_OneShotQueryOutcome ==
    OneShotRan
    => /\ dsync # <<>>
       /\ ~connected
       /\ oneShot.outcome = oneShot.queryOutcome

\* C21 (as stated): whenever the helper writes the line `connected` to stdout while the
\* connect call is pending (no fatal stderr output came before), in whatever read the
\* line arrives, the call is completed with success and the instance is connected; and
\* the instance is never connected unless the helper has written that line.
C21_HandshakeInAnyRead ==
    /\ [][\A data \in StdoutChunks :
            (StdoutData(data) /\ HasConnectedLine(data) /\ connectCall.state = "pending")
            => (connected' /\ connectCall'.state = "connected")]_vars
    /\ [](connected => connectedWritten)

\* C22 (as stated): a request that is pending when the caller has disconnected, by
\* disconnect() or disconnectSync(), is eventually completed and taken out of the table.
\* (Stated without the kind of completion: a late response would do as well.)
C22_DisconnectCompletesPendingRequests ==
    \A id \in 1..MaxRequests :
        (killed /\ hasConnected /\ id \in Requests /\ waiter[id].state = "pending")
        ~> (id \in Requests /\ waiter[id].state # "pending" /\ id \notin DOMAIN currentMessages)

\* C23 (as stated): the outcome of a connect(callback) call is signalled at most once,
\* whatever the helper writes to stdout and stderr; a call that was signalled a
\* failure is not signalled a success.
C23_ConnectSignalledOnce ==
    /\ connectCall.calls <= 1
    /\ connectCall.state = "failed" => ~hasConnected

\* The querySync requests in flight: dispatched, and their own response not decoded yet.
InFlightQuerySync == {id \in Requests : waiter[id].mode = "querySync" /\ id \notin decoded}

\* C24 (as stated): the listeners querySync has attached to the decoder are exactly those
\* of the querySync requests in flight.
C24_ListenersAreThoseInFlight ==
    {listeners[i] : i \in 1..Len(listeners)} = InFlightQuerySync

====
